---- MODULE Spec2Model ----
(***************************************************************************)
(* The bit-level stream reader of src/coliru/07ada2f480ba99ab.cpp:         *)
(* struct A<N> (a span over N bytes plus a read/write cursor), the bit     *)
(* primitives select and shift, the field extractor next, and the reader   *)
(* step doNext<W>, which calls next at the read cursor and stores the new  *)
(* position.  The build of the recorded run keeps assert() enabled, so a   *)
(* failed assertion aborts the program.                                    *)
(***************************************************************************)
EXTENDS Integers, Sequences, FiniteSets, TLC

(* ------------------------------ bounds --------------------------------- *)

\* Small buffers have 1..MaxN bytes.
MaxN == 2

\* Length of the long buffers (more bytes than a ByteIndex can tell apart).
BigN == 257

\* Widths 0..MaxWidth are requested, plus the ones of WrapWidths.
MaxWidth == 9

\* The cursor is rewound to positions within NearBits of either end.
NearBits == 12

\* Byte values the small buffers are filled with.
ByteVals == {0, 255, 253, 138, 247, 85}

\* The buffer of main().
MainBuffer == <<253, 138, 247>>

\* (bytes 0..255, bytes 256..) fillings of the long buffers.
BigFill == {<<165, 60>>}

\* Widths that do not fit std::uint8_t, and the largest that does.
WrapWidths == {255, 256, 257, 264}

Widths == (0 .. MaxWidth) \cup WrapWidths

Buffers ==
    UNION {[1 .. k -> ByteVals] : k \in 1 .. MaxN}
    \cup {MainBuffer}
    \cup {[i \in 1 .. BigN |-> IF i <= 256 THEN f[1] ELSE f[2]] : f \in BigFill}

\* What a read outside the span may produce (undefined behaviour).
Garbage == {0, 255}

(* ------------------------ integer arithmetic --------------------------- *)

\* Conversion to std::uint8_t (BitPosition, ByteIndex, BitCount).
U8(x) == x % 256

Bit(x, k) == (x \div (2 ^ k)) % 2

RECURSIVE BitAnd(_, _)
BitAnd(a, b) ==
    IF a = 0 \/ b = 0 THEN 0
    ELSE (a % 2) * (b % 2) + 2 * BitAnd(a \div 2, b \div 2)

RECURSIVE BitOr(_, _)
BitOr(a, b) ==
    IF a = 0 THEN b
    ELSE IF b = 0 THEN a
    ELSE (IF a % 2 = 1 \/ b % 2 = 1 THEN 1 ELSE 0) + 2 * BitOr(a \div 2, b \div 2)

ShiftLeft(x, k) == x * (2 ^ k)

ShiftRight(x, k) == x \div (2 ^ k)

Min(a, b) == IF a <= b THEN a ELSE b

Max(a, b) == IF a >= b THEN a ELSE b

(* --------------------------- bit primitives ---------------------------- *)

\* The assertions of select without stop >= start.
selectAssert_NoOrder(start, stop) ==
    IF ~(start < 8) THEN "select: start < 8"
    ELSE IF ~(stop < 8) THEN "select: stop < 8"
    ELSE "none"

\* The assertions of select, in order: the first that fails, or "none".
selectAssert(start, stop) ==
    IF ~(start < 8) THEN "select: start < 8"
    ELSE IF ~(stop < 8) THEN "select: stop < 8"
    ELSE IF ~(stop >= start) THEN "select: stop >= start"
    ELSE "none"

\* select without the mask that clears the bits below start.
select_NoStartMask(data, start, stop) ==
    U8(BitAnd(data, ShiftRight(255, 7 - stop)))

\* select without the mask that clears the bits above stop.
select_NoStopMask(data, start, stop) ==
    U8(BitAnd(data, ShiftLeft(255, start)))

select(data, start, stop) ==
    U8(BitAnd(BitAnd(data, ShiftRight(255, 7 - stop)), ShiftLeft(255, start)))

\* The assertions of shift with offset < 8 for offset <= 8.
shiftAssert_Strict(start, offset) ==
    IF ~(start < 8) THEN "shift: start < 8"
    ELSE IF ~(offset < 8) THEN "shift: offset <= 8"
    ELSE "none"

\* The assertions of shift, in order: the first that fails, or "none".
shiftAssert(start, offset) ==
    IF ~(start < 8) THEN "shift: start < 8"
    ELSE IF ~(offset <= 8) THEN "shift: offset <= 8"
    ELSE "none"

\* shift with the value left as the int the expression yields.
shift_NoTruncate(data, start, offset) ==
    ShiftLeft(ShiftRight(data, start), offset)

\* shift without the move of bit start down to bit 0.
shift_NoRightShift(data, start, offset) ==
    U8(ShiftLeft(data, offset))

shift(data, start, offset) ==
    U8(ShiftLeft(ShiftRight(data, start), offset))

(* --------------------------- field extractor --------------------------- *)

\* nextAssert without the capacity test.
nextAssert_NoCapacity(N, cursor, n) ==
    IF ~(n > 0) THEN "next: n > 0"
    ELSE IF ~(n <= 8) THEN "next: n <= 8"
    ELSE "none"

\* nextAssert with the capacity test off by one (< for <=).
nextAssert_Strict(N, cursor, n) ==
    IF ~(n > 0) THEN "next: n > 0"
    ELSE IF ~(n <= 8) THEN "next: n <= 8"
    ELSE IF ~((cursor + n) < (8 * N)) THEN "next: (cursor + n) <= (8 * N)"
    ELSE "none"

\* The three assertions at the head of next, in order.
nextAssert(N, cursor, n) ==
    IF ~(n > 0) THEN "next: n > 0"
    ELSE IF ~(n <= 8) THEN "next: n <= 8"
    ELSE IF ~((cursor + n) <= (8 * N)) THEN "next: (cursor + n) <= (8 * N)"
    ELSE "none"

\* Ctrl counting pos.second + 1 bits for the second byte also when the field
\* lies in one byte.
Ctrl_SecondAlways(cursor, n) ==
    LET pos      == <<U8(cursor % 8), U8((cursor + n - 1) % 8)>>
        twoBytes == pos[2] < pos[1]
        byte     == <<U8(cursor \div 8), U8((cursor + n - 1) \div 8)>>
        count    == <<Min(U8(8 - pos[1]), U8(n)), U8(pos[2] + 1)>>
        range    == << <<pos[1], IF twoBytes THEN 7 ELSE pos[2]>>,
                       <<0, IF twoBytes THEN pos[2] ELSE 0>> >>
    IN  [pos |-> pos, twoBytes |-> twoBytes, byte |-> byte,
         count |-> count, range |-> range]

\* The member initialisers of next::Ctrl; pairs are <<first, second>>.
Ctrl(cursor, n) ==
    LET pos      == <<U8(cursor % 8), U8((cursor + n - 1) % 8)>>
        twoBytes == pos[2] < pos[1]
        byte     == <<U8(cursor \div 8), U8((cursor + n - 1) \div 8)>>
        count    == <<Min(U8(8 - pos[1]), U8(n)),
                      U8(IF twoBytes THEN pos[2] + 1 ELSE 0)>>
        range    == << <<pos[1], IF twoBytes THEN 7 ELSE pos[2]>>,
                       <<0, IF twoBytes THEN pos[2] ELSE 0>> >>
    IN  [pos |-> pos, twoBytes |-> twoBytes, byte |-> byte,
         count |-> count, range |-> range]

\* What Ctrl holds when its constructor was never entered.
NoCtrl ==
    [pos |-> <<0, 0>>, twoBytes |-> FALSE, byte |-> <<0, 0>>,
     count |-> <<0, 0>>, range |-> << <<0, 0>>, <<0, 0>> >>]

\* The assertions in the body of Ctrl's constructor, in order.
CtrlAssert(c, n, N) ==
    IF ~(n > 0) THEN "Ctrl: n > 0"
    ELSE IF ~((c.count[1] + c.count[2]) = n)
        THEN "Ctrl: (count.first + count.second) == n"
    ELSE IF ~(c.count[2] = Max(U8(n - c.count[1]), 0))
        THEN "Ctrl: count.second == max(n - count.first, 0)"
    ELSE IF ~(c.byte[1] < N) THEN "Ctrl: byte.first < N"
    ELSE IF ~(c.byte[2] < N) THEN "Ctrl: byte.second < N"
    ELSE "none"

\* ByteAccess taking the byte after the first as the second byte, also when
\* the field lies in one byte.
ByteAccess_NextByte(c) == <<c.byte[1], c.byte[1] + 1>>

\* The byte indices next applies to data: data[ctrl.byte.first], then
\* data[ctrl.byte.second].
ByteAccess(c) == <<c.byte[1], c.byte[2]>>

\* The byte indices the last call of next applied to data.
VARIABLE loads

\* Load that hands out again the byte loaded first by the call before,
\* as if next kept it in a static cache.
Load_Cached(d, i, junk) ==
    IF loads # <<>> /\ loads[1] < Len(d) THEN d[loads[1] + 1]
    ELSE IF i < Len(d) THEN d[i + 1] ELSE junk

\* data[i] of the span; outside the span the read is undefined.
Load(d, i, junk) == IF i < Len(d) THEN d[i + 1] ELSE junk

\* NewPos that leaves the position where it was.
NewPos_Stay(cursor, n) == cursor

\* NewPos one bit too far.
NewPos_OffByOne(cursor, n) == cursor + n + 1

\* The position next returns.
NewPos(cursor, n) == cursor + n

\* Combine that drops the part taken from the second byte.
Combine_FirstOnly(twoBytes, first, second) == first

\* The value next returns.
Combine(twoBytes, first, second) ==
    IF twoBytes THEN BitOr(first, second) ELSE first

\* An aborted call of next: the failed assertion, how far it got.
Aborted(what, stage, c, idx, first) ==
    [assertion |-> what, stage |-> stage, ctrl |-> c, index |-> idx,
     first |-> first, second |-> 0, result |-> <<0, 0>>]

\* next(data, cursor, n), n already a std::uint8_t.  junk is what a read
\* outside the span yields.
next(d, cursor, n, junk) ==
    LET N  == Len(d)
        a0 == nextAssert(N, cursor, n)
    IN
    IF a0 # "none" THEN Aborted(a0, "pre", NoCtrl, <<>>, 0)
    ELSE
    LET c  == Ctrl(cursor, n)
        a1 == CtrlAssert(c, n, N)
    IN
    IF a1 # "none" THEN Aborted(a1, "ctrl", c, <<>>, 0)
    ELSE
    LET idx == ByteAccess(c)
        b1  == Load(d, idx[1], junk)
        a2  == selectAssert(c.range[1][1], c.range[1][2])
        a3  == shiftAssert(c.range[1][1], 0)
    IN
    IF a2 # "none" THEN Aborted(a2, "first", c, <<idx[1]>>, 0)
    ELSE IF a3 # "none" THEN Aborted(a3, "first", c, <<idx[1]>>, 0)
    ELSE
    LET first == shift(select(b1, c.range[1][1], c.range[1][2]), c.range[1][1], 0)
        b2    == Load(d, idx[2], junk)
        a4    == selectAssert(c.range[2][1], c.range[2][2])
        a5    == shiftAssert(c.range[2][1], c.count[1])
    IN
    IF a4 # "none" THEN Aborted(a4, "second", c, idx, first)
    ELSE IF a5 # "none" THEN Aborted(a5, "second", c, idx, first)
    ELSE
    LET second == shift(select(b2, c.range[2][1], c.range[2][2]),
                        c.range[2][1], c.count[1])
    IN
    [assertion |-> "none", stage |-> "done", ctrl |-> c, index |-> idx,
     first |-> first, second |-> second,
     result |-> <<Combine(c.twoBytes, first, second), NewPos(cursor, n)>>]

\* The values a read outside the span may yield in next(d, cursor, n): one
\* value when every read of the call lies inside the span.
Junk(d, cursor, n) ==
    IF /\ nextAssert(Len(d), cursor, n) = "none"
       /\ \E k \in 1 .. 2 : ByteAccess(Ctrl(cursor, n))[k] >= Len(d)
    THEN Garbage
    ELSE {0}

\* Store into the write position instead of the read position.
Store_Write(c, pos) == [c EXCEPT !.write = pos]

\* t.cursor.read = pos: the cursor c after the store.
Store(c, pos) == [c EXCEPT !.read = pos]

\* std::bitset<8>{v}.to_string(): eight digits, most significant first.
bitsetToString(v) == [i \in 1 .. 8 |-> Bit(v, 8 - i)]

(* ------------------------------- reader -------------------------------- *)

VARIABLES
    data,      \* A::data, the span over the caller's bytes
    cursor,    \* A::cursor, [read, write]
    call,      \* the last operation: its name, doNext's width W, and the
               \* read cursor doNext started from (resetRead: its argument)
    printed,   \* what the last call of next wrote to std::cout
    r,         \* doNext's local r, the pair next returned
    ret,       \* the string doNext returned
    failed,    \* the assertion that aborted the program, or "none"
    script,    \* the statements of a caller that runs a fixed sequence
    pc,        \* how many statements of script have run
    out,       \* the strings that caller has written to std::cout
    other,     \* a second A over the same bytes: [cursor, call, r, ret]
    solo,      \* per reader, the cursor and the pair r it would hold had
               \* its own operations run with no other reader
    thr,       \* per thread inside doNext<W>(a): where it is, W, the
               \* position it passed to next, its local r and its string
    prim       \* a direct call of select or shift: its arguments and value

\* The variables of the reader and of the last call.
reader == <<data, cursor, call, printed, loads, r, ret, failed>>

\* The variables of the callers that run a fixed sequence of statements.
caller == <<script, pc, out>>

\* The variables of the programs with two readers over one buffer.
pair == <<other, solo>>

vars == <<reader, caller, pair, thr, prim>>

\* r and ret when no call has returned.
NoResult == <<-1, -1>>

NoString == <<>>

\* Nothing printed.
NoPrint ==
    [stage |-> "none", cursor |-> 0, n |-> 0, ctrl |-> NoCtrl,
     first |-> 0, second |-> 0]

\* No value: the call did not return.
NoValue == 0 - 1

\* No direct call of select or shift.
NoPrim ==
    [op |-> "none", data |-> 0, start |-> 0, arg |-> 0,
     prev |-> NoValue, val |-> NoValue]

\* Two threads that have not called doNext.
NoThreads ==
    [t \in 1 .. 2 |->
        [pc |-> "idle", W |-> 0, at |-> 0, r |-> NoResult, ret |-> NoString]]

\* A second reader, freshly constructed.
NoReader ==
    [cursor |-> [read |-> 0, write |-> 0],
     call |-> [op |-> "A", W |-> 0, at |-> 0],
     r |-> NoResult, ret |-> NoString]

\* What each of two fresh readers would hold had it run alone.
NoSolo ==
    [a |-> [cursor |-> 0, r |-> NoResult],
     b |-> [cursor |-> 0, r |-> NoResult]]

\* A<N> a{s.data()}: the span, and the cursor's default member initialisers.
Init ==
    /\ data \in Buffers
    /\ cursor = [read |-> 0, write |-> 0]
    /\ call = [op |-> "A", W |-> 0, at |-> 0]
    /\ printed = NoPrint
    /\ loads = <<>>
    /\ r = NoResult
    /\ ret = NoString
    /\ failed = "none"
    /\ script = <<>>
    /\ pc = 0
    /\ out = <<>>
    /\ other = NoReader
    /\ solo = NoSolo
    /\ thr = NoThreads
    /\ prim = NoPrim

\* doNext<W>(a): next at a.cursor.read with std::uint8_t(W), then the store
\* of r.second and the conversion of r.first.  An assertion that fails inside
\* next aborts the program before the store.
doNext(W) ==
    /\ failed = "none"
    /\ \E junk \in Junk(data, cursor.read, U8(W)) :
         \E res \in {next(data, cursor.read, U8(W), junk)} :
         /\ call' = [op |-> "doNext", W |-> W, at |-> cursor.read]
         /\ printed' = IF res.stage = "pre" THEN NoPrint
                       ELSE [stage |-> res.stage, cursor |-> cursor.read,
                             n |-> U8(W), ctrl |-> res.ctrl,
                             first |-> res.first, second |-> res.second]
         /\ loads' = res.index
         /\ failed' = res.assertion
         /\ IF res.assertion = "none"
            THEN /\ r' = res.result
                 /\ cursor' = Store(cursor, res.result[2])
                 /\ ret' = bitsetToString(res.result[1])
            ELSE /\ r' = NoResult
                 /\ cursor' = cursor
                 /\ ret' = NoString
    /\ UNCHANGED data

\* The positions the caller rewinds to.
ResetTargets ==
    (0 .. Min(NearBits, 8 * Len(data)))
    \cup (Max(0, 8 * Len(data) - NearBits) .. 8 * Len(data))

\* a.cursor.read = pos, the caller's rewind.
resetRead(pos) ==
    /\ failed = "none"
    /\ cursor' = Store(cursor, pos)
    /\ call' = [op |-> "resetRead", W |-> 0, at |-> pos]
    /\ printed' = NoPrint
    /\ loads' = <<>>
    /\ r' = NoResult
    /\ ret' = NoString
    /\ UNCHANGED <<data, failed>>

Next ==
    \/ \E W \in Widths : doNext(W) /\ UNCHANGED <<caller, pair, thr, prim>>
    \/ \E pos \in ResetTargets : resetRead(pos) /\ UNCHANGED <<caller, pair, thr, prim>>

Spec == Init /\ [][Next]_vars

(* ------------------------------- main() -------------------------------- *)

\* The statements of main() after the construction of a, each doNext with
\* the digits of the label main prints after the returned string.
MainScript ==
    << [op |-> "doNext", W |-> 1, pos |-> 0, label |-> <<1>>],
       [op |-> "doNext", W |-> 4, pos |-> 0, label |-> <<1, 1, 1, 0>>],
       [op |-> "doNext", W |-> 7, pos |-> 0, label |-> <<1, 0, 1, 0, 1, 1, 1>>],
       [op |-> "resetRead", W |-> 0, pos |-> 0, label |-> <<>>],
       [op |-> "doNext", W |-> 1, pos |-> 0, label |-> <<1>>],
       [op |-> "doNext", W |-> 7, pos |-> 0, label |-> <<1, 1, 1, 1, 1, 1, 1, 0>>],
       [op |-> "doNext", W |-> 1, pos |-> 0, label |-> <<0>>],
       [op |-> "doNext", W |-> 6, pos |-> 0, label |-> <<0, 0, 0, 1, 0, 1>>],
       [op |-> "doNext", W |-> 1, pos |-> 0, label |-> <<1>>],
       [op |-> "resetRead", W |-> 0, pos |-> 0, label |-> <<>>],
       [op |-> "doNext", W |-> 8, pos |-> 0, label |-> <<1, 1, 1, 1, 1, 1, 0, 1>>],
       [op |-> "doNext", W |-> 8, pos |-> 0, label |-> <<1, 0, 0, 0, 1, 0, 1, 0>>],
       [op |-> "doNext", W |-> 8, pos |-> 0, label |-> <<1, 1, 1, 1, 0, 1, 1, 1>>] >>

\* main() without its second group of reads: the three reads, the rewind
\* and the three reads of whole bytes.
ScenarioScript ==
    [i \in 1 .. 7 |-> MainScript[IF i <= 3 THEN i ELSE i + 6]]

Scripts == {MainScript, ScenarioScript}

\* The short buffers and the buffer of main().
ShortBuffers == {b \in Buffers : Len(b) <= Len(MainBuffer)}

\* a is constructed over one of the short buffers; no statement has run.
InitMain ==
    /\ data \in ShortBuffers
    /\ cursor = [read |-> 0, write |-> 0]
    /\ call = [op |-> "A", W |-> 0, at |-> 0]
    /\ printed = NoPrint
    /\ loads = <<>>
    /\ r = NoResult
    /\ ret = NoString
    /\ failed = "none"
    /\ script \in Scripts
    /\ pc = 0
    /\ out = <<>>
    /\ other = NoReader
    /\ solo = NoSolo
    /\ thr = NoThreads
    /\ prim = NoPrim

\* std::cout << doNext<W>(a) << label: the next statement, a read.
MainRead ==
    /\ pc < Len(script)
    /\ script[pc + 1].op = "doNext"
    /\ doNext(script[pc + 1].W)
    /\ pc' = IF failed' = "none" THEN pc + 1 ELSE pc
    /\ out' = IF failed' = "none" THEN Append(out, ret') ELSE out
    /\ UNCHANGED <<script, pair, thr, prim>>

\* a.cursor.read = 0: the next statement, a rewind.
MainReset ==
    /\ pc < Len(script)
    /\ script[pc + 1].op = "resetRead"
    /\ resetRead(script[pc + 1].pos)
    /\ pc' = pc + 1
    /\ UNCHANGED <<script, out, pair, thr, prim>>

NextMain == MainRead \/ MainReset

SpecMain == InitMain /\ [][NextMain]_vars

\* The number a string of binary digits denotes, most significant first.
RECURSIVE BinaryValue(_)
BinaryValue(digits) ==
    IF digits = <<>> THEN 0
    ELSE 2 * BinaryValue(SubSeq(digits, 1, Len(digits) - 1))
         + digits[Len(digits)]

\* The values of the strings written so far.
OutValues == [i \in 1 .. Len(out) |-> BinaryValue(out[i])]

(* ------------------- two readers over one buffer ----------------------- *)

\* The buffers two readers share: the one-byte buffers and main()'s.
PairBuffers == {d \in Buffers : Len(d) = 1} \cup {MainBuffer}

\* The widths the two readers ask for.
PairWidths == {0, 1, 4, 7, 8}

\* A<N> a{s.data()}, b{s.data()}: two readers over the same bytes.
InitPair ==
    /\ data \in PairBuffers
    /\ cursor = [read |-> 0, write |-> 0]
    /\ call = [op |-> "A", W |-> 0, at |-> 0]
    /\ printed = NoPrint
    /\ loads = <<>>
    /\ r = NoResult
    /\ ret = NoString
    /\ failed = "none"
    /\ script = <<>>
    /\ pc = 0
    /\ out = <<>>
    /\ other = NoReader
    /\ solo = NoSolo
    /\ thr = NoThreads
    /\ prim = NoPrim

\* What a reader that runs alone holds after doNext<W> from position p.
SoloRead(p, W) ==
    LET res == next(data, p, U8(W), 0) IN
    IF res.assertion = "none"
    THEN [cursor |-> res.result[2], r |-> res.result]
    ELSE [cursor |-> p, r |-> NoResult]

\* What a reader that runs alone holds after its cursor is set to pos.
SoloReset(pos) == [cursor |-> pos, r |-> NoResult]

\* The position doNext<W>(b) hands to next: the cursor of the other
\* reader, as if the cursor were shared by all readers.
BPos_Shared == cursor.read

\* The position doNext<W>(b) hands to next: t.cursor.read.
BPos == other.cursor.read

\* doNext<W>(a) in the program with two readers.
doNextA(W) ==
    /\ doNext(W)
    /\ solo' = [solo EXCEPT !.a = SoloRead(solo.a.cursor, W)]
    /\ UNCHANGED <<caller, other, thr, prim>>

\* a.cursor.read = pos in the program with two readers.
resetReadA(pos) ==
    /\ resetRead(pos)
    /\ solo' = [solo EXCEPT !.a = SoloReset(pos)]
    /\ UNCHANGED <<caller, other, thr, prim>>

\* doNext<W>(b): as doNext<W>(a), on the second reader.
doNextB(W) ==
    /\ failed = "none"
    /\ \E junk \in Junk(data, BPos, U8(W)) :
         \E res \in {next(data, BPos, U8(W), junk)} :
         /\ printed' = IF res.stage = "pre" THEN NoPrint
                       ELSE [stage |-> res.stage, cursor |-> BPos,
                             n |-> U8(W), ctrl |-> res.ctrl,
                             first |-> res.first, second |-> res.second]
         /\ loads' = res.index
         /\ failed' = res.assertion
         /\ other' = IF res.assertion = "none"
                 THEN [cursor |-> Store(other.cursor, res.result[2]),
                       call |-> [op |-> "doNext", W |-> W, at |-> other.cursor.read],
                       r |-> res.result,
                       ret |-> bitsetToString(res.result[1])]
                 ELSE [cursor |-> other.cursor,
                       call |-> [op |-> "doNext", W |-> W, at |-> other.cursor.read],
                       r |-> NoResult,
                       ret |-> NoString]
    /\ solo' = [solo EXCEPT !.b = SoloRead(solo.b.cursor, W)]
    /\ UNCHANGED <<data, cursor, call, r, ret, caller, thr, prim>>

\* b.cursor.read = pos.
resetReadB(pos) ==
    /\ failed = "none"
    /\ other' = [cursor |-> Store(other.cursor, pos),
             call |-> [op |-> "resetRead", W |-> 0, at |-> pos],
             r |-> NoResult,
             ret |-> NoString]
    /\ printed' = NoPrint
    /\ loads' = <<>>
    /\ solo' = [solo EXCEPT !.b = SoloReset(pos)]
    /\ UNCHANGED <<data, cursor, call, r, ret, failed, caller, thr, prim>>

NextPair ==
    \/ \E W \in PairWidths : doNextA(W)
    \/ \E pos \in ResetTargets : resetReadA(pos)
    \/ \E W \in PairWidths : doNextB(W)
    \/ \E pos \in ResetTargets : resetReadB(pos)

SpecPair == InitPair /\ [][NextPair]_vars

(* ------------------- two threads on one reader ------------------------- *)

\* The widths the two threads ask for.
ThreadWidths == {0, 1, 4, 7, 8}

\* One reader over one of the buffers of PairBuffers; no thread has called.
InitThreads ==
    /\ data \in PairBuffers
    /\ cursor = [read |-> 0, write |-> 0]
    /\ call = [op |-> "A", W |-> 0, at |-> 0]
    /\ printed = NoPrint
    /\ loads = <<>>
    /\ r = NoResult
    /\ ret = NoString
    /\ failed = "none"
    /\ script = <<>>
    /\ pc = 0
    /\ out = <<>>
    /\ other = NoReader
    /\ solo = NoSolo
    /\ thr = NoThreads
    /\ prim = NoPrim

\* a.cursor.read = pos, before either thread has called doNext.
ThreadReset(pos) ==
    /\ \A t \in 1 .. 2 : thr[t].pc = "idle"
    /\ resetRead(pos)
    /\ UNCHANGED <<caller, pair, thr, prim>>

\* Thread t enters doNext<W>(a): auto r = next(t.data, t.cursor.read, W).
\* The cursor is read here and next runs on the value read.
ThreadCall(t, W) ==
    /\ failed = "none"
    /\ thr[t].pc = "idle"
    /\ \E junk \in Junk(data, cursor.read, U8(W)) :
         \E res \in {next(data, cursor.read, U8(W), junk)} :
         /\ printed' = IF res.stage = "pre" THEN NoPrint
                       ELSE [stage |-> res.stage, cursor |-> cursor.read,
                             n |-> U8(W), ctrl |-> res.ctrl,
                             first |-> res.first, second |-> res.second]
         /\ loads' = res.index
         /\ failed' = res.assertion
         /\ thr' = [thr EXCEPT ![t] =
                IF res.assertion = "none"
                THEN [pc |-> "store", W |-> W, at |-> cursor.read,
                      r |-> res.result, ret |-> NoString]
                ELSE [pc |-> "aborted", W |-> W, at |-> cursor.read,
                      r |-> NoResult, ret |-> NoString]]
    /\ UNCHANGED <<data, cursor, call, r, ret, caller, pair, prim>>

\* The position thread t stores: the cursor as it is now plus the width, as
\* if doNext advanced the cursor in place.
StoredPos_Advance(t) == cursor.read + U8(thr[t].W)

\* The position thread t stores: r.second of its own call of next.
StoredPos(t) == thr[t].r[2]

\* Thread t leaves doNext<W>(a): t.cursor.read = r.second, and the string.
ThreadStore(t) ==
    /\ failed = "none"
    /\ thr[t].pc = "store"
    /\ cursor' = Store(cursor, StoredPos(t))
    /\ thr' = [thr EXCEPT ![t].pc = "done",
                          ![t].ret = bitsetToString(thr[t].r[1])]
    /\ UNCHANGED <<data, call, printed, loads, r, ret, failed, caller, pair, prim>>

NextThreads ==
    \/ \E pos \in ResetTargets : ThreadReset(pos)
    \/ \E t \in 1 .. 2 : \E W \in ThreadWidths : ThreadCall(t, W)
    \/ \E t \in 1 .. 2 : ThreadStore(t)

SpecThreads == InitThreads /\ [][NextThreads]_vars

(* -------------------- select and shift called directly ----------------- *)

\* Arguments tried: start in 0 .. MaxStart, stop and offset in 0 .. MaxArg,
\* so that each assertion of select and shift both passes and fails.
MaxStart == 9
MaxArg == 10

\* Every value of std::uint8_t data.
Bytes == 0 .. 255

\* The arguments of one direct call are chosen; nothing has been called.
InitPrim ==
    /\ data = MainBuffer
    /\ cursor = [read |-> 0, write |-> 0]
    /\ call = [op |-> "A", W |-> 0, at |-> 0]
    /\ printed = NoPrint
    /\ loads = <<>>
    /\ r = NoResult
    /\ ret = NoString
    /\ failed = "none"
    /\ script = <<>>
    /\ pc = 0
    /\ out = <<>>
    /\ other = NoReader
    /\ solo = NoSolo
    /\ thr = NoThreads
    /\ \E d \in Bytes : \E start \in 0 .. MaxStart : \E arg \in 0 .. MaxArg :
         prim = [op |-> "args", data |-> d, start |-> start, arg |-> arg,
                 prev |-> NoValue, val |-> NoValue]

\* select(data, start, stop): an assertion aborts, or the value is returned.
PrimSelect ==
    /\ failed = "none"
    /\ prim.op = "args"
    /\ failed' = selectAssert(prim.start, prim.arg)
    /\ prim' = [prim EXCEPT !.op = "select",
                            !.val = IF selectAssert(prim.start, prim.arg) = "none"
                                    THEN select(prim.data, prim.start, prim.arg)
                                    ELSE NoValue]
    /\ UNCHANGED <<data, cursor, call, printed, loads, r, ret, caller, pair, thr>>

\* select(v, start, stop) on the value v a select with the same start and
\* stop has just returned.
PrimSelectAgain ==
    /\ failed = "none"
    /\ prim.op = "select"
    /\ failed' = selectAssert(prim.start, prim.arg)
    /\ prim' = [prim EXCEPT !.op = "select again",
                            !.prev = prim.val,
                            !.val = select(prim.val, prim.start, prim.arg)]
    /\ UNCHANGED <<data, cursor, call, printed, loads, r, ret, caller, pair, thr>>

\* shift(data, start, offset): an assertion aborts, or the value is returned.
PrimShift ==
    /\ failed = "none"
    /\ prim.op = "args"
    /\ failed' = shiftAssert(prim.start, prim.arg)
    /\ prim' = [prim EXCEPT !.op = "shift",
                            !.val = IF shiftAssert(prim.start, prim.arg) = "none"
                                    THEN shift(prim.data, prim.start, prim.arg)
                                    ELSE NoValue]
    /\ UNCHANGED <<data, cursor, call, printed, loads, r, ret, caller, pair, thr>>

NextPrim ==
    \/ PrimSelect
    \/ PrimSelectAgain
    \/ PrimShift

SpecPrim == InitPrim /\ [][NextPrim]_vars

(* ------------------------------ vocabulary ----------------------------- *)

N == Len(data)

\* Global bit g of the buffer: bit g mod 8 of byte g div 8.
GlobalBit(g) == Bit(data[(g \div 8) + 1], g % 8)

\* The last operation was doNext and it returned.
Returned == call.op = "doNext" /\ failed = "none"

\* The last operation was doNext and an assertion aborted it.
Aborts == call.op = "doNext" /\ failed # "none"

\* The last operation was doNext, next accepted its position and width and
\* built Ctrl from them.
Extracted == call.op = "doNext" /\ printed # NoPrint

\* The buffer d with global bit g inverted.
FlipBit(d, g) ==
    [d EXCEPT ![(g \div 8) + 1] =
        IF Bit(@, g % 8) = 1 THEN @ - 2 ^ (g % 8) ELSE @ + 2 ^ (g % 8)]

\* The bits the buffer is varied at: the ones within NearBits of either end
\* (every bit of a buffer of up to three bytes).
TwinBits ==
    (0 .. Min(NearBits, 8 * N - 1)) \cup (Max(0, 8 * N - NearBits) .. (8 * N - 1))

TypeOK ==
    /\ cursor.read \in Nat /\ cursor.write \in Nat
    /\ failed \in STRING

(* ------------------------------- claims -------------------------------- *)

\* C1: whenever next returns for width n at position p, bit k of the value
\* (0 <= k < n) is global bit p + k of the buffer, for fields inside one
\* byte and fields over two bytes, for buffers of any length.
C1_ValueIsGlobalBits ==
    Returned =>
        \A k \in 0 .. (printed.n - 1) : Bit(r[1], k) = GlobalBit(call.at + k)

\* C2: whenever next returns for width n (1..8) at position p, the value is
\* below 2^n and the position returned is p + n.
C2_ValueBelowPow2 ==
    Returned =>
        /\ printed.n \in 1 .. 8
        /\ r[1] >= 0 /\ r[1] < 2 ^ printed.n
        /\ r[2] = printed.cursor + printed.n

C2_Witness ==
    /\ Returned
    /\ printed.ctrl.twoBytes
    /\ printed.cursor = 5 /\ printed.n = 7
    /\ r = <<87, 12>>

\* C3: a readBits(W) that returns leaves the cursor W bits further and
\* returns the value of the extraction of W bits at the old cursor.
C3_ReadAdvancesByWidth ==
    Returned =>
        /\ cursor.read = call.at + call.W
        /\ \A junk \in Garbage :
             LET e == next(data, call.at, call.W, junk) IN
             e.assertion = "none" /\ r[1] = e.result[1]

\* C4: a readBits(W) whose precondition does not hold (W outside 1..8, or
\* the cursor plus W beyond the capacity) leaves readPos as it was.
C4_BadReadKeepsCursor ==
    (/\ call.op = "doNext"
     /\ (call.W \notin 1 .. 8 \/ call.at + call.W > 8 * N))
        => cursor.read = call.at

\* C5: readBits(W) with W = 0 or W > 8, widths of 256 and more included,
\* fails and returns nothing.
C5_BadWidthFails ==
    (call.op = "doNext" /\ (call.W = 0 \/ call.W > 8))
        => (failed # "none" /\ r = NoResult /\ ret = NoString)

\* C6: for n in 1..8, next at position p returns exactly when p + n <= 8N
\* (so it returns at p = 8N - n and fails at p = 8N - n + 1), and every
\* readBits issued at readPos = 8N fails.
C6_ReturnsIffInCapacity ==
    call.op = "doNext" =>
        /\ U8(call.W) \in 1 .. 8 =>
             (failed = "none" <=> call.at + U8(call.W) <= 8 * N)
        /\ call.at = 8 * N => failed # "none"

C6_Witness ==
    /\ Aborts
    /\ U8(call.W) \in 1 .. 8
    /\ call.at = 8 * N - U8(call.W) + 1
    /\ failed = "next: (cursor + n) <= (8 * N)"

\* C7: every byte index next applies to the buffer is below N, the second
\* one included, which is applied also when the field lies in one byte.
C7_LoadsInsideSpan ==
    /\ \A k \in 1 .. Len(loads) : loads[k] >= 0 /\ loads[k] < N
    /\ Returned => Len(loads) = 2

C7_Witness ==
    /\ Returned
    /\ ~printed.ctrl.twoBytes
    /\ loads = <<N - 1, N - 1>>
    /\ call.at + printed.n = 8 * N

\* C8: in every reachable state 0 <= readPos <= 8N.
C8_CursorInCapacity ==
    cursor.read >= 0 /\ cursor.read <= 8 * N

C8_Witness ==
    Returned /\ cursor.read = 8 * N /\ call.at < 8 * N

\* C9: a read of n1 bits at p followed by a read of n2 bits at p + n1, with
\* (p mod 8) + n1 + n2 <= 8, gives v1 and v2 with v1 + v2 * 2^n1 the value
\* of one read of n1 + n2 bits at p, and the cursor ends where that one
\* read would leave it, at p + n1 + n2.
C9_SameByteComposable ==
    [][(/\ Returned /\ Returned'
        /\ call'.at = r[2]
        /\ call.W >= 1 /\ call'.W >= 1
        /\ (call.at % 8) + call.W + call'.W <= 8)
       => \A junk \in Junk(data, call.at, call.W + call'.W) :
            \A one \in {next(data, call.at, call.W + call'.W, junk)} :
            /\ one.assertion = "none"
            /\ r[1] + r'[1] * (2 ^ call.W) = one.result[1]
            /\ cursor'.read = one.result[2]
            /\ cursor'.read = call.at + call.W + call'.W]_vars

C9_Witness ==
    /\ Returned
    /\ call.at % 8 \in 1 .. 6
    /\ (call.at % 8) + call.W <= 8
    /\ call.W \in 1 .. 7
    /\ r[1] > 0
    /\ cursor.read = call.at + call.W

\* C10: 8 bits read at a byte-aligned position p return buffer[p / 8]
\* unchanged, with countFirst = 8 and twoBytes false.
C10_FullBytePassthrough ==
    (Returned /\ printed.n = 8 /\ call.at % 8 = 0) =>
        /\ r[1] = data[(call.at \div 8) + 1]
        /\ printed.ctrl.count[1] = 8
        /\ ~printed.ctrl.twoBytes

\* C11: on the buffer of main(), the reads of 1, 4 and 7 bits, the rewind to
\* 0 and three reads of 8 bits return 1, 14, 87, 253, 138, 247; the cursor is
\* at 1, 5, 12 after the first three reads and at 24 at the end.
C11_Scenario ==
    (data = MainBuffer /\ script = ScenarioScript) =>
        /\ failed = "none"
        /\ OutValues = SubSeq(<<1, 14, 87, 253, 138, 247>>, 1, Len(out))
        /\ pc = 1 => cursor.read = 1
        /\ pc = 2 => cursor.read = 5
        /\ pc = 3 => cursor.read = 12
        /\ pc = 4 => cursor.read = 0
        /\ pc = 7 => (cursor.read = 24 /\ Len(out) = 6)

C11_Witness ==
    /\ data = MainBuffer /\ script = ScenarioScript
    /\ pc = 7
    /\ OutValues = <<1, 14, 87, 253, 138, 247>>

C13_HistoryIndependent ==
    /\ (call.op = "doNext" /\ other.call = call) =>
          /\ other.r = r
          /\ other.ret = ret
          /\ other.cursor.read = cursor.read
    /\ (call.op = "doNext" /\ r # NoResult /\ call.W \in 1 .. 8) =>
          cursor.read = call.at + call.W
    /\ (other.call.op = "doNext" /\ other.r # NoResult
        /\ other.call.W \in 1 .. 8) =>
          other.cursor.read = other.call.at + other.call.W

C13_Witness ==
    /\ data = MainBuffer
    /\ call = [op |-> "doNext", W |-> 7, at |-> 5]
    /\ other.call = call
    /\ r = <<87, 12>> /\ other.r = r
    /\ cursor.read = 12 /\ other.cursor.read = 12

\* C15: with two readers over one buffer, in every interleaving each reader
\* holds the result and the cursor it would hold had its own operations run
\* alone, and a step of one reader leaves the other reader and the buffer
\* as they were.
C15_ReadersIndependent ==
    [][/\ solo'.a.cursor = cursor'.read /\ solo'.a.r = r'
       /\ solo'.b.cursor = other'.cursor.read /\ solo'.b.r = other'.r
       /\ other' # other => UNCHANGED <<cursor, call, r, ret>>
       /\ <<cursor, call, r, ret>>' # <<cursor, call, r, ret>> => other' = other
       /\ data' = data]_vars

C15_Witness ==
    /\ data = MainBuffer
    /\ r # NoResult /\ other.r # NoResult
    /\ cursor.read = 12 /\ other.cursor.read = 1
    /\ solo.a.cursor = 12 /\ solo.b.cursor = 1

\* C14: every read, returning or aborting, and every rewind leaves the
\* bytes of the buffer and writePos as they were, and writePos is 0.
C14_BufferAndWritePosKept ==
    [][/\ data' = data
       /\ cursor'.write = cursor.write
       /\ cursor'.write = 0]_vars

C14_Witness ==
    /\ data = MainBuffer
    /\ Returned
    /\ cursor = [read |-> 12, write |-> 0]

\* C16: doNext on one reader is not protected against two threads.  When
\* both threads have passed the same position to next (each read the cursor
\* before the other stored it) and both have returned, each holds a field
\* that starts at that position and the cursor is advanced by the width of
\* one of them only, not by the sum; such a state is reachable (the witness).
C16_LostUpdate ==
    (/\ \A t \in 1 .. 2 : thr[t].pc = "done"
     /\ thr[1].at = thr[2].at) =>
        /\ \A t \in 1 .. 2 : thr[t].r[2] = thr[t].at + thr[t].W
        /\ cursor.read \in {thr[1].at + thr[1].W, thr[1].at + thr[2].W}
        /\ cursor.read # thr[1].at + thr[1].W + thr[2].W

C16_Witness ==
    /\ data = MainBuffer
    /\ \A t \in 1 .. 2 : thr[t].pc = "done"
    /\ thr[1].at = 1 /\ thr[2].at = 1
    /\ thr[1].W = 4 /\ thr[2].W = 7
    /\ thr[1].r = <<14, 5>> /\ thr[2].r = <<126, 8>>
    /\ cursor.read = 5

\* C17: for every byte and every 0 <= start <= stop <= 7, select returns
\* the byte with the bits at start .. stop kept and every other bit cleared,
\* and select applied to that value with the same start and stop returns it
\* unchanged.
C17_SelectKeepsRange ==
    (/\ prim.op \in {"select", "select again"}
     /\ prim.start <= prim.arg /\ prim.arg <= 7) =>
        /\ failed = "none"
        /\ prim.val \in Bytes
        /\ \A k \in 0 .. 7 :
             Bit(prim.val, k) = IF prim.start <= k /\ k <= prim.arg
                                THEN Bit(prim.data, k) ELSE 0
        /\ prim.op = "select again" => prim.val = prim.prev

C17_Witness ==
    /\ prim.op = "select again"
    /\ prim.data = 255 /\ prim.start = 2 /\ prim.arg = 5
    /\ prim.prev = 60 /\ prim.val = 60

\* C18: select returns no value and aborts whenever start > 7, stop > 7 or
\* stop < start, and shift whenever start > 7 or offset > 8; with arguments
\* inside these limits neither aborts.
C18_PrimitivesFailFast ==
    /\ prim.op = "select" =>
         ((prim.start > 7 \/ prim.arg > 7 \/ prim.arg < prim.start)
            <=> (failed # "none" /\ prim.val = NoValue))
    /\ prim.op = "shift" =>
         ((prim.start > 7 \/ prim.arg > 8)
            <=> (failed # "none" /\ prim.val = NoValue))

C18_Witness ==
    /\ prim.op = "select"
    /\ prim.start = 5 /\ prim.arg = 2
    /\ failed = "select: stop >= start"
    /\ prim.val = NoValue

\* C19: for every byte, start in 0 .. 7 and offset in 0 .. 8, shift returns
\* ((byte >> start) << offset) mod 256, and 0 when offset is 8.
C19_ShiftTruncates ==
    (prim.op = "shift" /\ prim.start <= 7 /\ prim.arg <= 8) =>
        /\ failed = "none"
        /\ prim.val = ((prim.data \div 2 ^ prim.start) * 2 ^ prim.arg) % 256
        /\ \A k \in 0 .. 7 :
             Bit(prim.val, k) = IF k >= prim.arg
                                THEN Bit(prim.data, k - prim.arg + prim.start)
                                ELSE 0
        /\ prim.arg = 8 => prim.val = 0

C19_Witness ==
    /\ prim.op = "shift"
    /\ prim.data = 255 /\ prim.start = 1 /\ prim.arg = 3
    /\ prim.val = 248

\* C20: for every position p and width n (1..8) with p + n <= 8N that the
\* extractor gets, positions from 2048 on in buffers of more than 256 bytes
\* included, the byte indices it computes are p div 8 and (p + n - 1) div 8.
C20_ByteIndicesExact ==
    (/\ call.op = "doNext"
     /\ printed # NoPrint
     /\ printed.n \in 1 .. 8
     /\ printed.cursor + printed.n <= 8 * N) =>
        printed.ctrl.byte = <<printed.cursor \div 8,
                              (printed.cursor + printed.n - 1) \div 8>>

\* C21: for every position and width next accepts, twoBytes is true exactly
\* when the two byte indices of Ctrl differ, and when it is true the second
\* index is the first plus one.
C21_TwoAdjacentBytes ==
    Extracted =>
        /\ printed.ctrl.twoBytes <=> (printed.ctrl.byte[2] # printed.ctrl.byte[1])
        /\ printed.ctrl.twoBytes =>
             printed.ctrl.byte[2] = printed.ctrl.byte[1] + 1

\* C22: for every position and width next accepts, count.first is
\* min(8 - pos.first, n), count.second is pos.second + 1 for a field over
\* two bytes and 0 otherwise, they add up to n, count.second is
\* max(n - count.first, 0), and neither assertion on the counts fails.
C22_CountsAddUp ==
    Extracted =>
        /\ printed.ctrl.count[1] = Min(8 - printed.ctrl.pos[1], printed.n)
        /\ printed.ctrl.count[2] =
             (IF printed.ctrl.twoBytes THEN printed.ctrl.pos[2] + 1 ELSE 0)
        /\ printed.ctrl.count[1] + printed.ctrl.count[2] = printed.n
        /\ printed.ctrl.count[2] = Max(printed.n - printed.ctrl.count[1], 0)
        /\ failed \notin {"Ctrl: (count.first + count.second) == n",
                          "Ctrl: count.second == max(n - count.first, 0)"}

C22_Witness ==
    /\ Extracted
    /\ printed.n = 7
    /\ printed.ctrl.twoBytes
    /\ printed.ctrl.count = <<3, 4>>
    /\ failed = "none"

\* C23: for every buffer, position p and width n with 1 <= n <= 8 and
\* p + n <= 8N, next runs to its return with no assertion failed.  The
\* select and shift of the second part are called in every such call; for a
\* field inside one byte their arguments are the range 0 .. 0 and the
\* offset count.first, at most 8, which their assertions accept.
C23_TotalOnValidInputs ==
    (/\ call.op = "doNext"
     /\ U8(call.W) \in 1 .. 8
     /\ call.at + U8(call.W) <= 8 * N) =>
        /\ failed = "none"
        /\ printed # NoPrint
        /\ printed.stage = "done"
        /\ Len(loads) = 2
        /\ selectAssert(printed.ctrl.range[2][1], printed.ctrl.range[2][2]) = "none"
        /\ shiftAssert(printed.ctrl.range[2][1], printed.ctrl.count[1]) = "none"
        /\ ~printed.ctrl.twoBytes =>
             /\ printed.ctrl.range[2] = <<0, 0>>
             /\ printed.ctrl.count[1] <= 8

C23_Witness ==
    /\ Returned
    /\ ~printed.ctrl.twoBytes
    /\ printed.ctrl.range[2] = <<0, 0>>
    /\ printed.ctrl.count[1] = 8
    /\ printed.stage = "done"

\* C24: when next returns for a field over two bytes, first has bits set
\* only at 0 .. count.first - 1 and second only at count.first .. n - 1, so
\* they share no bit and the value is first | second = first + second.
C24_PartsDisjoint ==
    (Returned /\ printed.ctrl.twoBytes) =>
        /\ printed.first < 2 ^ printed.ctrl.count[1]
        /\ printed.second % (2 ^ printed.ctrl.count[1]) = 0
        /\ printed.second < 2 ^ printed.n
        /\ BitAnd(printed.first, printed.second) = 0
        /\ r[1] = BitOr(printed.first, printed.second)
        /\ r[1] = printed.first + printed.second

C24_Witness ==
    /\ Returned
    /\ printed.ctrl.twoBytes
    /\ printed.ctrl.count = <<4, 3>>
    /\ printed.first = 8
    /\ printed.second = 112
    /\ r[1] = 120

\* C25: the value next returns for (p, n) depends only on bits p .. p + n - 1
\* of the buffer: a buffer of the same length that differs in a bit outside
\* the field gives the same value.
C25_OnlyFieldBits ==
    Returned =>
        \A g \in TwinBits \ (call.at .. (call.at + printed.n - 1)) :
            next(FlipBit(data, g), call.at, printed.n, 0).result[1] = r[1]

\* C26: a read of n1 bits at p followed by a read of n2 bits, n1 and n2 at
\* least 1 and n1 + n2 <= 8, both returning, gives v1 and v2 with
\* v1 + v2 * 2^n1 the value of one read of n1 + n2 bits at p, whether or not
\* the n1 + n2 bits lie in one byte.
C26_ReadsConcatenate ==
    [][(/\ Returned /\ Returned'
        /\ call'.at = call.at + call.W
        /\ call.W >= 1 /\ call'.W >= 1
        /\ call.W + call'.W <= 8)
       => \A junk \in Junk(data, call.at, call.W + call'.W) :
            \A both \in {next(data, call.at, call.W + call'.W, junk)} :
            /\ both.assertion = "none"
            /\ r[1] + r'[1] * (2 ^ call.W) = both.result[1]
            /\ r'[2] = both.result[2]]_vars

C26_Witness ==
    /\ Returned
    /\ data = MainBuffer
    /\ call.at = 7 /\ call.W = 3
    /\ printed.ctrl.twoBytes
    /\ r = <<5, 10>>

\* C27: every doNext that returns moves the read cursor strictly forward and
\* not past 8N, so the 8N - readPos bits left bound the number of reads
\* that can still return before a rewind; a doNext started at 8N fails and
\* leaves the cursor at 8N.
C27_ReadsExhaustBuffer ==
    [][call'.op = "doNext" =>
        /\ failed' = "none" =>
             /\ cursor'.read > cursor.read
             /\ cursor'.read <= 8 * N
             /\ (8 * N - cursor'.read) < (8 * N - cursor.read)
        /\ cursor.read = 8 * N =>
             /\ failed' # "none"
             /\ cursor'.read = 8 * N]_vars

C27_Witness ==
    /\ Aborts
    /\ call.W = 1
    /\ call.at = 8 * N
    /\ cursor.read = 8 * N
    /\ failed = "next: (cursor + n) <= (8 * N)"

\* C28: a call of next with n = 0, n > 8 or p + n > 8N is aborted by an
\* assertion before Ctrl is built and before data is indexed: no byte index
\* has been computed and no byte has been read.
C28_FailsBeforeAccess ==
    (/\ call.op = "doNext"
     /\ \/ U8(call.W) = 0
        \/ U8(call.W) > 8
        \/ call.at + U8(call.W) > 8 * N) =>
        /\ failed \in {"next: n > 0", "next: n <= 8",
                       "next: (cursor + n) <= (8 * N)"}
        /\ printed = NoPrint
        /\ loads = <<>>

C28_Witness ==
    /\ call.op = "doNext"
    /\ call.W = 8
    /\ call.at = 8 * N - 4
    /\ failed = "next: (cursor + n) <= (8 * N)"
    /\ printed = NoPrint
    /\ loads = <<>>

\* C29: a reader that has just been constructed has readPos = 0 and
\* writePos = 0, and its first readBits(W), when it returns, returns the low
\* W bits of buffer[0].
C29_FirstReadLowBits ==
    [][(call.op = "A" /\ call'.op = "doNext" /\ failed' = "none") =>
        /\ cursor = [read |-> 0, write |-> 0]
        /\ \A k \in 0 .. 7 :
             Bit(r'[1], k) = IF k < call'.W THEN Bit(data[1], k) ELSE 0]_vars

====
